---------------------------- MODULE Spec2Model ----------------------------
(***************************************************************************)
(* Model of damage_calculator.py: the damage composer                      *)
(* calculate_outgoing_damage, the three stat aggregators                   *)
(* calculate_total_atk / calculate_total_hp / calculate_total_def, the     *)
(* example runner run_prydwen_examples, the input functions                *)
(* get_float_input / get_int_input / get_list_float_input and the          *)
(* interactive program __main__.                                           *)
(*                                                                         *)
(* Three specifications share the variables.  Spec: one pending call of a  *)
(* calculation function, then its outcome.  SpecInput: one call of         *)
(* get_float_input or get_int_input, statement by statement, on the lines  *)
(* an operator types.  SpecMain: the program from its start, statement by  *)
(* statement, the functions it calls running by the same actions.          *)
(*                                                                         *)
(* Numbers.  The program computes on Python floats.  The model computes    *)
(* on exact rationals [n |-> numerator, d |-> denominator], kept in        *)
(* lowest terms with d > 0.  Rounding in the last binary place of a        *)
(* double is therefore not represented; everything else (order of the      *)
(* operations, the clamps, the guard, the fold) is as in the source.       *)
(* Python raises ZeroDivisionError on a float division by zero: RDiv       *)
(* yields the value NaR (d = 0) for it, every operation propagates NaR,    *)
(* and a call whose result is NaR ends with pc = "raised".                 *)
(*                                                                         *)
(* Text.  A line of input is the sequence of its characters; float() and   *)
(* int() are the grammars Python applies to a string.  Output is the       *)
(* sequence of the prompts and messages written, a formatted message       *)
(* being recorded by its format string.                                    *)
(***************************************************************************)
EXTENDS Integers, Sequences, FiniteSets

VARIABLES
    pc,      \* "call": the call is pending; "returned"; "raised"; inside
             \* get_float_input, get_int_input and __main__ the statement
             \* that runs next
    call,    \* [fn |-> name of the function, args |-> its argument record]
    locals,  \* the local variables of the function
    ret,     \* the value returned, or the exception raised
    stdin,   \* [lines |-> the lines the operator types, pos |-> lines read]
    stdout,  \* the prompts and messages written so far
    stack    \* the suspended callers, innermost first

vars == <<pc, call, locals, ret, stdin, stdout, stack>>

-----------------------------------------------------------------------------
(* Bounds of the model *)

\* an input record differs from a base record in at most this many fields
MaxVaried == 2

\* longest universal_dmg_reduction_sources list drawn as an input
MaxSources == 2

\* most lines an operator types at one call of get_float_input or
\* get_int_input
MaxLines == 3

\* most invalid answers an operator gives to the question for the stat type
MaxRetries == 1

-----------------------------------------------------------------------------
(* Exact arithmetic standing for Python's float operators *)

Abs(x) == IF x < 0 THEN -x ELSE x

RECURSIVE GCD(_, _)
GCD(a, b) == IF b = 0 THEN a ELSE GCD(b, a % b)

LCM(a, b) == (a \div GCD(a, b)) * b

NaR == [n |-> 0, d |-> 0]

IsNum(a) == a.d > 0

R(i) == [n |-> i, d |-> 1]

Zero == R(0)

One == R(1)

\* the literal p/q, q > 0, in lowest terms
Frac(p, q) ==
    LET g == GCD(Abs(p), q)
    IN  [n |-> p \div g, d |-> q \div g]

\* a + b
RAdd(a, b) ==
    IF ~IsNum(a) \/ ~IsNum(b) THEN NaR
    ELSE LET l == LCM(a.d, b.d)
         IN  Frac(a.n * (l \div a.d) + b.n * (l \div b.d), l)

\* -a
RNeg(a) == [n |-> -a.n, d |-> a.d]

\* a - b
RSub(a, b) == RAdd(a, RNeg(b))

\* a * b
RMul(a, b) ==
    IF ~IsNum(a) \/ ~IsNum(b) THEN NaR
    ELSE LET g1 == GCD(Abs(a.n), b.d)
             g2 == GCD(Abs(b.n), a.d)
         IN  [n |-> (a.n \div g1) * (b.n \div g2),
              d |-> (a.d \div g2) * (b.d \div g1)]

\* a / b; a zero divisor raises ZeroDivisionError
RDiv(a, b) ==
    IF ~IsNum(a) \/ ~IsNum(b) \/ b.n = 0 THEN NaR
    ELSE RMul(a, [n |-> IF b.n < 0 THEN -b.d ELSE b.d, d |-> Abs(b.n)])

\* p/q < r/s for q, s > 0, by integer parts and then the remainders
RECURSIVE FracLess(_, _, _, _)
FracLess(p, q, r, s) ==
    IF p \div q # r \div s THEN p \div q < r \div s
    ELSE IF p % q = 0 THEN r % s > 0
    ELSE IF r % s = 0 THEN FALSE
    ELSE FracLess(s, r % s, q, p % q)

\* a < b
RLt(a, b) == IsNum(a) /\ IsNum(b) /\ FracLess(a.n, a.d, b.n, b.d)

\* a <= b
RLe(a, b) == IsNum(a) /\ IsNum(b) /\ ~RLt(b, a)

\* max(a, b): Python returns the first argument unless a later one is greater
RMax(a, b) == IF RLt(a, b) THEN b ELSE a

\* min(a, b): Python returns the first argument unless a later one is smaller
RMin(a, b) == IF RLt(b, a) THEN b ELSE a

\* abs(a)
RAbs(a) == [n |-> Abs(a.n), d |-> a.d]

-----------------------------------------------------------------------------
(* calculate_outgoing_damage; a is the record of its nineteen arguments *)

\* 1. Base_DMG
base_dmg(a) ==
    RAdd(RMul(RAdd(a.skill_multiplier, a.extra_multiplier),
              a.scaling_attribute_value),
         a.extra_dmg)

\* 2. DMG_Percent_Multiplier
dmg_percent_multiplier(a) ==
    RAdd(RAdd(RAdd(RAdd(One, a.elemental_dmg_bonus_percent),
                   a.all_type_dmg_bonus_percent),
              a.dot_dmg_bonus_percent),
         a.other_dmg_bonus_percent)

\* Enemy_Final_DEF without the floor at 0
enemy_final_def_unfloored(a) ==
    RMul(a.enemy_base_def,
         RSub(RAdd(One, a.enemy_def_percent_buffs_debuffs),
              RAdd(a.def_reduction_percent, a.def_ignore_percent)))

\* 3. Enemy_Final_DEF, floored at 0
enemy_final_def(a) ==
    RMax(Zero,
         RMul(a.enemy_base_def,
              RSub(RAdd(One, a.enemy_def_percent_buffs_debuffs),
                   RAdd(a.def_reduction_percent, a.def_ignore_percent))))

\* the denominator without the attacker's level
def_multiplier_denominator_without_level(final_def, attacker_level) ==
    RAdd(final_def, R(200))

\* 4. the denominator of the DEF multiplier
def_multiplier_denominator(final_def, attacker_level) ==
    RAdd(RAdd(final_def, R(200)), R(10 * attacker_level))

\* DEF_Multiplier without the guard
def_multiplier_unguarded(final_def, denominator) ==
    RSub(One, RDiv(final_def, denominator))

\* DEF_Multiplier with the guard widened to every denominator <= 0
def_multiplier_guard_nonpositive(final_def, denominator) ==
    IF RLe(denominator, Zero)
    THEN One
    ELSE RSub(One, RDiv(final_def, denominator))

\* DEF_Multiplier as the quotient itself, the subtraction from 1 left out
def_multiplier_quotient_only(final_def, denominator) ==
    IF denominator = Zero
    THEN One
    ELSE RDiv(final_def, denominator)

\* 4. DEF_Multiplier, with the guard against a zero denominator
def_multiplier(final_def, denominator) ==
    IF denominator = Zero
    THEN One
    ELSE RSub(One, RDiv(final_def, denominator))

\* the penetration added to the resistance instead of subtracted
effective_res_pen_added(a) ==
    RAdd(a.enemy_current_res_percent, a.res_pen_percent)

\* 5. RES_Multiplier
effective_res(a) == RSub(a.enemy_current_res_percent, a.res_pen_percent)

\* the clamp without its upper end
clamped_effective_res_no_cap(res) == RMax(R(-1), res)

clamped_effective_res(res) == RMax(R(-1), RMin(Frac(9, 10), res))

res_multiplier(clamped_res) == RSub(One, clamped_res)

\* 6. DMG_Taken_Multiplier
dmg_taken_multiplier(a) ==
    RAdd(RAdd(One, a.elemental_dmg_taken_bonus_percent),
         a.all_type_dmg_taken_bonus_percent)

\* the loop left after its first iteration
reduction_loop_first_only(acc, sources) ==
    IF sources = <<>>
    THEN acc
    ELSE RMul(acc, RSub(One, Head(sources)))

\* 7. the loop over universal_dmg_reduction_sources: acc is the multiplier
\* so far, sources the part of the list not yet visited
RECURSIVE reduction_loop(_, _)
reduction_loop(acc, sources) ==
    IF sources = <<>>
    THEN acc
    ELSE reduction_loop(RMul(acc, RSub(One, Head(sources))), Tail(sources))

universal_dmg_reduction_multiplier(sources) == reduction_loop(One, sources)

\* the weaken percent added instead of subtracted
weaken_multiplier_added(a) == RAdd(One, a.weaken_percent)

\* 8. Weaken_Multiplier
weaken_multiplier(a) == RSub(One, a.weaken_percent)

\* the final product with the weaken multiplier left out
outgoing_dmg_without_weaken(base, percent, def, res, taken, universal, weaken) ==
    RMul(RMul(RMul(RMul(RMul(base, percent), def), res), taken), universal)

\* the final product, multiplied from the left as Python does
outgoing_dmg(base, percent, def, res, taken, universal, weaken) ==
    RMul(RMul(RMul(RMul(RMul(RMul(base, percent), def), res), taken),
              universal),
         weaken)

\* the local variables of calculate_outgoing_damage at its end
calculate_outgoing_damage_locals(a) ==
    LET base      == base_dmg(a)
        percent   == dmg_percent_multiplier(a)
        final_def == enemy_final_def(a)
        denom     == def_multiplier_denominator(final_def, a.attacker_level)
        def       == def_multiplier(final_def, denom)
        eff_res   == effective_res(a)
        clamped   == clamped_effective_res(eff_res)
        res       == res_multiplier(clamped)
        taken     == dmg_taken_multiplier(a)
        universal == universal_dmg_reduction_multiplier(
                         a.universal_dmg_reduction_sources)
        weaken    == weaken_multiplier(a)
    IN  [base_dmg                           |-> base,
         dmg_percent_multiplier             |-> percent,
         enemy_final_def                    |-> final_def,
         def_multiplier_denominator         |-> denom,
         def_multiplier                     |-> def,
         effective_res                      |-> eff_res,
         clamped_effective_res              |-> clamped,
         res_multiplier                     |-> res,
         dmg_taken_multiplier               |-> taken,
         universal_dmg_reduction_multiplier |-> universal,
         weaken_multiplier                  |-> weaken,
         outgoing_dmg                       |->
             outgoing_dmg(base, percent, def, res, taken, universal, weaken)]

\* the value calculate_outgoing_damage returns
calculate_outgoing_damage(a) == calculate_outgoing_damage_locals(a).outgoing_dmg

-----------------------------------------------------------------------------
(* The stat aggregators; s is the record of the four arguments *)

calculate_total_atk(s) ==
    RAdd(RMul(RAdd(s.base, s.lc_base), RAdd(One, s.percent_bonus)),
         s.flat_bonus)

calculate_total_hp(s) ==
    RAdd(RMul(RAdd(s.base, s.lc_base), RAdd(One, s.percent_bonus)),
         s.flat_bonus)

\* the flat bonus added before the percent bonus is applied
calculate_total_def_flat_first(s) ==
    RMul(RAdd(RAdd(s.base, s.lc_base), s.flat_bonus), RAdd(One, s.percent_bonus))

calculate_total_def(s) ==
    RAdd(RMul(RAdd(s.base, s.lc_base), RAdd(One, s.percent_bonus)),
         s.flat_bonus)

-----------------------------------------------------------------------------
(* run_prydwen_examples: five calls on fixed arguments, each compared with *)
(* the damage the article expects                                          *)

tolerance == 1

\* Tingyun Example 1: enemy not broken, not weak to Lightning
TingyunEx1 ==
    [skill_multiplier                  |-> Frac(6, 10),
     scaling_attribute_value           |-> R(1062),
     extra_multiplier                  |-> Zero,
     extra_dmg                         |-> Zero,
     elemental_dmg_bonus_percent       |-> Frac(258, 1000),
     all_type_dmg_bonus_percent        |-> Zero,
     dot_dmg_bonus_percent             |-> Zero,
     other_dmg_bonus_percent           |-> Frac(1, 10),
     attacker_level                    |-> 50,
     enemy_base_def                    |-> R(700),
     enemy_def_percent_buffs_debuffs   |-> Zero,
     def_reduction_percent             |-> Zero,
     def_ignore_percent                |-> Zero,
     enemy_current_res_percent         |-> Frac(2, 10),
     res_pen_percent                   |-> Zero,
     elemental_dmg_taken_bonus_percent |-> Zero,
     all_type_dmg_taken_bonus_percent  |-> Zero,
     universal_dmg_reduction_sources   |-> <<Frac(1, 10)>>,
     weaken_percent                    |-> Zero]

\* Tingyun Example 2: enemy broken
TingyunEx2 == [TingyunEx1 EXCEPT !.universal_dmg_reduction_sources = <<>>]

\* Tingyun Example 3: enemy weak to Lightning, not broken
TingyunEx3 == [TingyunEx1 EXCEPT !.enemy_current_res_percent = Zero]

\* Qingque Example 1: enemy not broken, not weak to Quantum
QingqueEx1 ==
    [TingyunEx1 EXCEPT !.skill_multiplier = Frac(7, 10),
                       !.scaling_attribute_value = R(1432),
                       !.elemental_dmg_bonus_percent = Frac(186, 1000),
                       !.all_type_dmg_bonus_percent = Frac(15, 100)]

\* Qingque Example 2: enemy weak to Quantum, not broken
QingqueEx2 == [QingqueEx1 EXCEPT !.enemy_current_res_percent = Zero]

example_args == <<TingyunEx1, TingyunEx2, TingyunEx3, QingqueEx1, QingqueEx2>>

expected_dmg == <<312, 346, 389, 518, 648>>

\* examples 1, 2 and 4 pass on abs(calculated - expected) < tolerance;
\* examples 3 and 5 on math.isclose(calculated, expected, abs_tol=tolerance),
\* that is abs(calculated - expected) <= tolerance (the relative tolerance
\* 1e-09 of isclose is below the absolute one for damages of this size)
test_passed(i, calculated) ==
    IF i \in {3, 5}
    THEN RLe(RAbs(RSub(calculated, R(expected_dmg[i]))), R(tolerance))
    ELSE RLt(RAbs(RSub(calculated, R(expected_dmg[i]))), R(tolerance))

examples_locals ==
    [calculated_dmg |->
        [i \in 1..Len(example_args) |-> calculate_outgoing_damage(example_args[i])],
     passed |->
        [i \in 1..Len(example_args) |->
            test_passed(i, calculate_outgoing_damage(example_args[i]))]]

\* the titles printed by lines 221, 253, 285, 327 and 359
example_titles ==
    <<"\n--- Tingyun Example 1: Enemy not broken, not weak to Lightning ---",
      "\n--- Tingyun Example 2: Enemy broken ---",
      "\n--- Tingyun Example 3: Enemy weak to Lightning, not broken ---",
      "\n--- Qingque Example 1: Enemy not broken, not weak to Quantum ---",
      "\n--- Qingque Example 2: Enemy weak to Quantum, not broken ---">>

\* what example i prints; a formatted message is recorded by its format
\* string
example_output(i, passed) ==
    <<example_titles[i],
      "Calculated Damage: {calculated_dmg:.2f}",
      IF i = 5 THEN "Expected Damage: {expected_dmg} (Prydwen: 647.8)"
      ELSE "Expected Damage: {expected_dmg}",
      IF passed THEN "Test Passed"
      ELSE "Test Failed. Difference: {abs(calculated_dmg - expected_dmg):.2f}">>

\* everything run_prydwen_examples prints
examples_output ==
    <<"\n==============================",
      "Running Prydwen.gg Examples",
      "==============================">>
    \o example_output(1, examples_locals.passed[1])
    \o example_output(2, examples_locals.passed[2])
    \o example_output(3, examples_locals.passed[3])
    \o example_output(4, examples_locals.passed[4])
    \o example_output(5, examples_locals.passed[5])
    \o <<"\n==============================",
          "Prydwen Examples Complete",
          "==============================\n">>

-----------------------------------------------------------------------------
(* The inputs the calls are drawn from *)

\* every sequence over S of length at most n
RECURSIVE SeqsUpTo(_, _)
SeqsUpTo(S, n) ==
    IF n = 0 THEN {<<>>}
    ELSE LET shorter == SeqsUpTo(S, n - 1)
         IN  shorter \cup {Append(q, x) : q \in shorter, x \in S}

ReductionValues == {Frac(1, 10), Frac(1, 20)}

\* the values a field of the damage record is varied over
FieldValues(f) ==
    CASE f = "skill_multiplier"                  -> {Zero, R(2)}
      [] f = "scaling_attribute_value"           -> {Zero, R(-100)}
      [] f = "extra_multiplier"                  -> {Zero, R(-1)}
      [] f = "extra_dmg"                         -> {Zero, R(50), R(-500)}
      [] f = "elemental_dmg_bonus_percent"       -> {Zero, Frac(1, 4), R(-2)}
      [] f = "all_type_dmg_bonus_percent"        -> {Zero, Frac(1, 2)}
      [] f = "dot_dmg_bonus_percent"             -> {Zero, Frac(1, 8)}
      [] f = "other_dmg_bonus_percent"           -> {Zero, Frac(1, 4)}
      [] f = "attacker_level"                    -> {0, 50, -20, -30, -100}
      [] f = "enemy_base_def"                    -> {Zero, R(100), R(700), R(-100)}
      [] f = "enemy_def_percent_buffs_debuffs"   -> {Zero, Frac(1, 2), Frac(-1, 2)}
      [] f = "def_reduction_percent"             -> {Zero, Frac(1, 2), Frac(3, 2)}
      [] f = "def_ignore_percent"                -> {Zero, Frac(1, 4), Frac(3, 4)}
      [] f = "enemy_current_res_percent"         -> {Zero, Frac(1, 5), R(5), R(-5)}
      [] f = "res_pen_percent"                   -> {Zero, Frac(1, 10), Frac(3, 2)}
      [] f = "elemental_dmg_taken_bonus_percent" -> {Zero, Frac(1, 4), Frac(-3, 2)}
      [] f = "all_type_dmg_taken_bonus_percent"  -> {Zero, Frac(1, 4)}
      [] f = "universal_dmg_reduction_sources"   -> SeqsUpTo(ReductionValues, MaxSources)
      [] f = "weaken_percent"                    -> {Zero, Frac(1, 4), One, Frac(3, 2)}

\* a record with every modifier at 0: no bonus, no defense, no resistance,
\* no reduction source
Neutral ==
    [skill_multiplier                  |-> One,
     scaling_attribute_value           |-> R(100),
     extra_multiplier                  |-> Zero,
     extra_dmg                         |-> Zero,
     elemental_dmg_bonus_percent       |-> Zero,
     all_type_dmg_bonus_percent        |-> Zero,
     dot_dmg_bonus_percent             |-> Zero,
     other_dmg_bonus_percent           |-> Zero,
     attacker_level                    |-> 0,
     enemy_base_def                    |-> Zero,
     enemy_def_percent_buffs_debuffs   |-> Zero,
     def_reduction_percent             |-> Zero,
     def_ignore_percent                |-> Zero,
     enemy_current_res_percent         |-> Zero,
     res_pen_percent                   |-> Zero,
     elemental_dmg_taken_bonus_percent |-> Zero,
     all_type_dmg_taken_bonus_percent  |-> Zero,
     universal_dmg_reduction_sources   |-> <<>>,
     weaken_percent                    |-> Zero]

\* a record with every modifier in play
Typical ==
    [skill_multiplier                  |-> Frac(1, 2),
     scaling_attribute_value           |-> R(100),
     extra_multiplier                  |-> Frac(1, 4),
     extra_dmg                         |-> R(50),
     elemental_dmg_bonus_percent       |-> Frac(1, 4),
     all_type_dmg_bonus_percent        |-> Frac(1, 2),
     dot_dmg_bonus_percent             |-> Frac(1, 8),
     other_dmg_bonus_percent           |-> Frac(1, 8),
     attacker_level                    |-> 50,
     enemy_base_def                    |-> R(700),
     enemy_def_percent_buffs_debuffs   |-> Frac(1, 2),
     def_reduction_percent             |-> Frac(1, 2),
     def_ignore_percent                |-> Frac(1, 4),
     enemy_current_res_percent         |-> Frac(1, 5),
     res_pen_percent                   |-> Frac(1, 10),
     elemental_dmg_taken_bonus_percent |-> Frac(1, 4),
     all_type_dmg_taken_bonus_percent  |-> Frac(1, 4),
     universal_dmg_reduction_sources   |-> <<Frac(1, 10), Frac(1, 20)>>,
     weaken_percent                    |-> Frac(1, 4)]

BaseRecords == {Neutral, Typical}

\* a choice <<f, v>> sets field f of a record to v
Choices ==
    UNION {{<<f, v>> : v \in FieldValues(f)} : f \in DOMAIN Neutral}

\* record r after the choices ch[1], ..., ch[k]
RECURSIVE Vary(_, _, _)
Vary(r, ch, k) ==
    IF k = 0 THEN r
    ELSE [Vary(r, ch, k - 1) EXCEPT ![ch[k][1]] = ch[k][2]]

StatFns == {"calculate_total_atk", "calculate_total_hp", "calculate_total_def"}

StatInputs ==
    [base          : {Zero, R(523), R(-40)},
     lc_base       : {Zero, R(476), R(-7)},
     percent_bonus : {Zero, Frac(48, 100), Frac(-1, 2), R(-1)},
     flat_bonus    : {Zero, R(352), R(-90)}]

\* Python's None
None == [none |-> TRUE]

-----------------------------------------------------------------------------
(* The state machine: one pending call, then its outcome *)

\* no operator input, nothing written yet, no caller
NoConsole ==
    /\ stdin = [lines |-> <<>>, pos |-> 0]
    /\ stdout = <<>>
    /\ stack = <<>>

Init ==
    /\ pc = "call"
    /\ locals = None
    /\ ret = None
    /\ NoConsole
    /\ \/ \E r \in BaseRecords, ch \in [1..MaxVaried -> Choices] :
              call = [fn |-> "calculate_outgoing_damage",
                      args |-> Vary(r, ch, MaxVaried)]
       \/ \E f \in StatFns, s \in StatInputs :
              call = [fn |-> f, args |-> s]
       \/ call = [fn |-> "run_prydwen_examples"]

CalculateOutgoingDamage ==
    /\ pc = "call"
    /\ call.fn = "calculate_outgoing_damage"
    /\ locals' = calculate_outgoing_damage_locals(call.args)
    /\ ret' = locals'.outgoing_dmg
    /\ pc' = IF IsNum(ret') THEN "returned" ELSE "raised"
    /\ UNCHANGED <<call, stdin, stdout, stack>>

CalculateTotalAtk ==
    /\ pc = "call"
    /\ call.fn = "calculate_total_atk"
    /\ ret' = calculate_total_atk(call.args)
    /\ pc' = "returned"
    /\ UNCHANGED <<call, locals, stdin, stdout, stack>>

CalculateTotalHp ==
    /\ pc = "call"
    /\ call.fn = "calculate_total_hp"
    /\ ret' = calculate_total_hp(call.args)
    /\ pc' = "returned"
    /\ UNCHANGED <<call, locals, stdin, stdout, stack>>

CalculateTotalDef ==
    /\ pc = "call"
    /\ call.fn = "calculate_total_def"
    /\ ret' = calculate_total_def(call.args)
    /\ pc' = "returned"
    /\ UNCHANGED <<call, locals, stdin, stdout, stack>>

RunPrydwenExamples ==
    /\ pc = "call"
    /\ call.fn = "run_prydwen_examples"
    /\ locals' = examples_locals
    /\ stdout' = stdout \o examples_output
    /\ pc' = "returned"
    /\ UNCHANGED <<call, ret, stdin, stack>>

Next ==
    \/ CalculateOutgoingDamage
    \/ CalculateTotalAtk
    \/ CalculateTotalHp
    \/ CalculateTotalDef
    \/ RunPrydwenExamples

Spec == Init /\ [][Next]_vars

-----------------------------------------------------------------------------
(* Operator input.  A line is the sequence of its characters, without the  *)
(* newline; float() and int() are modelled by the grammar Python applies   *)
(* to a string, over the characters that occur in the modelled lines.      *)

\* the exception input() raises at the end of the input
EOFError == [raised |-> "EOFError"]

IsSpace(c) == c = " "

\* str.strip(), applied by float() and int() to their argument
RECURSIVE lstrip(_)
lstrip(s) == IF s # <<>> /\ IsSpace(Head(s)) THEN lstrip(Tail(s)) ELSE s

RECURSIVE rstrip(_)
rstrip(s) ==
    IF s # <<>> /\ IsSpace(s[Len(s)])
    THEN rstrip(SubSeq(s, 1, Len(s) - 1))
    ELSE s

strip(s) == rstrip(lstrip(s))

DigitChars == <<"0", "1", "2", "3", "4", "5", "6", "7", "8", "9">>

IsDigit(c) == \E i \in 1..10 : DigitChars[i] = c

DigitValue(c) == (CHOOSE i \in 1..10 : DigitChars[i] = c) - 1

\* digitpart ::= digit (["_"] digit)*
IsDigitPart(s) ==
    /\ s # <<>>
    /\ \A i \in 1..Len(s) : IsDigit(s[i]) \/ s[i] = "_"
    /\ IsDigit(s[1])
    /\ IsDigit(s[Len(s)])
    /\ \A i \in 1..(Len(s) - 1) : ~(s[i] = "_" /\ s[i + 1] = "_")

\* the number a digitpart denotes, acc being the value of the digits read
RECURSIVE DigitPartValue(_, _)
DigitPartValue(acc, s) ==
    IF s = <<>> THEN acc
    ELSE IF Head(s) = "_" THEN DigitPartValue(acc, Tail(s))
    ELSE DigitPartValue(10 * acc + DigitValue(Head(s)), Tail(s))

\* the number of digits of a digitpart
DigitCount(s) == Cardinality({i \in 1..Len(s) : IsDigit(s[i])})

RECURSIVE Pow10(_)
Pow10(k) == IF k = 0 THEN 1 ELSE 10 * Pow10(k - 1)

\* a string without its optional sign, and the sign
Unsigned(s) == IF s # <<>> /\ Head(s) \in {"+", "-"} THEN Tail(s) ELSE s

SignOf(s) == IF s # <<>> /\ Head(s) = "-" THEN -1 ELSE 1

\* the position of the first occurrence of one of the characters cs, or 0
IndexOf(s, cs) ==
    IF \E i \in 1..Len(s) : s[i] \in cs
    THEN CHOOSE i \in 1..Len(s) :
             /\ s[i] \in cs
             /\ \A j \in 1..(i - 1) : s[j] \notin cs
    ELSE 0

UpperChars ==
    <<"A", "B", "C", "D", "E", "F", "G", "H", "I", "J", "K", "L", "M",
      "N", "O", "P", "Q", "R", "S", "T", "U", "V", "W", "X", "Y", "Z">>

LowerChars ==
    <<"a", "b", "c", "d", "e", "f", "g", "h", "i", "j", "k", "l", "m",
      "n", "o", "p", "q", "r", "s", "t", "u", "v", "w", "x", "y", "z">>

\* str.lower()
lower(s) ==
    [i \in 1..Len(s) |->
        IF \E k \in 1..26 : UpperChars[k] = s[i]
        THEN LowerChars[CHOOSE k \in 1..26 : UpperChars[k] = s[i]]
        ELSE s[i]]

\* str.split(',')
RECURSIVE split(_)
split(s) ==
    LET i == IndexOf(s, {","})
    IN  IF i = 0 THEN <<s>>
        ELSE <<SubSeq(s, 1, i - 1)>> \o split(SubSeq(s, i + 1, Len(s)))

\* int(s) does not raise ValueError: s is [sign] digitpart between whitespace
int_accepts(s) == IsDigitPart(Unsigned(strip(s)))

\* int(s), for a string int() accepts
int_value(s) ==
    R(SignOf(strip(s)) * DigitPartValue(0, Unsigned(strip(s))))

\* float('inf'), float('-inf') and float('nan'): floats, but no numbers the
\* arithmetic above works on
float_inf(sign) == [n |-> sign, d |-> 0, special |-> "inf"]

float_nan == [n |-> 0, d |-> 0, special |-> "nan"]

InfNames == {<<"i", "n", "f">>, <<"i", "n", "f", "i", "n", "i", "t", "y">>}

NanNames == {<<"n", "a", "n">>}

\* the exponent, the integer part and the fraction part of a float literal
\* without its sign; an absent part is <<>>, an absent exponent NoExponent
NoExponent == <<"absent">>

FloatParts(u) ==
    LET e    == IndexOf(u, {"e", "E"})
        mant == IF e = 0 THEN u ELSE SubSeq(u, 1, e - 1)
        dot  == IndexOf(mant, {"."})
    IN  [exponent |-> IF e = 0 THEN NoExponent ELSE SubSeq(u, e + 1, Len(u)),
         int      |-> IF dot = 0 THEN mant ELSE SubSeq(mant, 1, dot - 1),
         frac     |-> IF dot = 0 THEN <<>>
                      ELSE SubSeq(mant, dot + 1, Len(mant))]

\* floatnumber ::= (digitpart ["." [digitpart]] | "." digitpart) [exponent]
IsFloatNumber(u) ==
    LET p == FloatParts(u)
    IN  /\ p.exponent # NoExponent => IsDigitPart(Unsigned(p.exponent))
        /\ p.int = <<>> \/ IsDigitPart(p.int)
        /\ p.frac = <<>> \/ IsDigitPart(p.frac)
        /\ ~(p.int = <<>> /\ p.frac = <<>>)

\* float(s) does not raise ValueError
float_accepts(s) ==
    LET u == Unsigned(strip(s))
    IN  u \in InfNames \/ u \in NanNames \/ IsFloatNumber(u)

\* float(s), for a string float() accepts
float_value(s) ==
    LET t    == strip(s)
        u    == Unsigned(t)
        p    == FloatParts(u)
        mant == RAdd(R(DigitPartValue(0, p.int)),
                     Frac(DigitPartValue(0, p.frac), Pow10(DigitCount(p.frac))))
        ex   == IF p.exponent = NoExponent THEN 0
                ELSE SignOf(p.exponent)
                         * DigitPartValue(0, Unsigned(p.exponent))
        scaled == IF ex >= 0 THEN RMul(mant, R(Pow10(ex)))
                  ELSE RMul(mant, Frac(1, Pow10(-ex)))
    IN  IF u \in InfNames THEN float_inf(SignOf(t))
        ELSE IF u \in NanNames THEN float_nan
        ELSE RMul(R(SignOf(t)), scaled)

-----------------------------------------------------------------------------
(* get_float_input and get_int_input, statement by statement *)

InputFns == {"get_float_input", "get_int_input"}

float_message == "Invalid input. Please enter a number."

int_message == "Invalid input. Please enter an integer."

\* the default is returned for an empty line only if it is a truthy value
returns_default_if_truthy(default, user_input) ==
    default # None /\ default # Zero /\ user_input = <<>>

\* if default is not None and not user_input
returns_default(default, user_input) ==
    default # None /\ user_input = <<>>

\* line 170, user_input = input(prompt): the prompt is written, then a line
\* is read; at the end of the input EOFError is raised, which no handler
\* catches
GetFloatInputRead ==
    /\ pc \in {"call", "while"}
    /\ call.fn = "get_float_input"
    /\ stdout' = Append(stdout, call.args.prompt)
    /\ IF stdin.pos < Len(stdin.lines)
       THEN /\ stdin' = [stdin EXCEPT !.pos = @ + 1]
            /\ locals' = [user_input |-> stdin.lines[stdin.pos + 1]]
            /\ pc' = "try"
            /\ UNCHANGED ret
       ELSE /\ ret' = EOFError
            /\ pc' = "raised"
            /\ UNCHANGED <<stdin, locals>>
    /\ UNCHANGED <<call, stack>>

\* lines 171 to 173: return the default, or float(user_input), which raises
\* ValueError for a string outside the grammar
GetFloatInputReturn ==
    /\ pc = "try"
    /\ call.fn = "get_float_input"
    /\ IF returns_default(call.args.default, locals.user_input)
       THEN ret' = call.args.default /\ pc' = "returned"
       ELSE IF float_accepts(locals.user_input)
       THEN ret' = float_value(locals.user_input) /\ pc' = "returned"
       ELSE pc' = "except" /\ UNCHANGED ret
    /\ UNCHANGED <<call, locals, stdin, stdout, stack>>

\* lines 174 and 175: the handler prints the message and the loop goes on
GetFloatInputExcept ==
    /\ pc = "except"
    /\ call.fn = "get_float_input"
    /\ stdout' = Append(stdout, float_message)
    /\ pc' = "while"
    /\ UNCHANGED <<call, locals, ret, stdin, stack>>

\* line 180, user_input = input(prompt)
GetIntInputRead ==
    /\ pc \in {"call", "while"}
    /\ call.fn = "get_int_input"
    /\ stdout' = Append(stdout, call.args.prompt)
    /\ IF stdin.pos < Len(stdin.lines)
       THEN /\ stdin' = [stdin EXCEPT !.pos = @ + 1]
            /\ locals' = [user_input |-> stdin.lines[stdin.pos + 1]]
            /\ pc' = "try"
            /\ UNCHANGED ret
       ELSE /\ ret' = EOFError
            /\ pc' = "raised"
            /\ UNCHANGED <<stdin, locals>>
    /\ UNCHANGED <<call, stack>>

\* lines 181 to 183
GetIntInputReturn ==
    /\ pc = "try"
    /\ call.fn = "get_int_input"
    /\ IF returns_default(call.args.default, locals.user_input)
       THEN ret' = call.args.default /\ pc' = "returned"
       ELSE IF int_accepts(locals.user_input)
       THEN ret' = int_value(locals.user_input) /\ pc' = "returned"
       ELSE pc' = "except" /\ UNCHANGED ret
    /\ UNCHANGED <<call, locals, stdin, stdout, stack>>

\* lines 184 and 185
GetIntInputExcept ==
    /\ pc = "except"
    /\ call.fn = "get_int_input"
    /\ stdout' = Append(stdout, int_message)
    /\ pc' = "while"
    /\ UNCHANGED <<call, locals, ret, stdin, stack>>

list_message ==
    "Invalid input. Please enter a comma-separated list of numbers (e.g., 0.1,0.05)."

\* lines 191 and 192: the default string stands in for an empty line
list_user_input(default_str, user_input) ==
    IF user_input = <<>> /\ default_str # None THEN default_str ELSE user_input

\* line 190, user_input = input(prompt)
GetListFloatInputRead ==
    /\ pc \in {"call", "while"}
    /\ call.fn = "get_list_float_input"
    /\ stdout' = Append(stdout, call.args.prompt)
    /\ IF stdin.pos < Len(stdin.lines)
       THEN /\ stdin' = [stdin EXCEPT !.pos = @ + 1]
            /\ locals' = [user_input |-> stdin.lines[stdin.pos + 1]]
            /\ pc' = "try"
            /\ UNCHANGED ret
       ELSE /\ ret' = EOFError
            /\ pc' = "raised"
            /\ UNCHANGED <<stdin, locals>>
    /\ UNCHANGED <<call, stack>>

\* lines 191 to 198: [] for a line that is still empty, else the list of
\* float(item.strip()) over the items between commas; one item float() does
\* not accept raises ValueError
GetListFloatInputReturn ==
    /\ pc = "try"
    /\ call.fn = "get_list_float_input"
    /\ LET user_input == list_user_input(call.args.default_str, locals.user_input)
           items      == split(user_input)
       IN  IF user_input = <<>>
           THEN ret' = <<>> /\ pc' = "returned"
           ELSE IF \A i \in 1..Len(items) : float_accepts(strip(items[i]))
           THEN /\ ret' = [i \in 1..Len(items) |-> float_value(strip(items[i]))]
                /\ pc' = "returned"
           ELSE pc' = "except" /\ UNCHANGED ret
    /\ UNCHANGED <<call, locals, stdin, stdout, stack>>

\* lines 198 and 199
GetListFloatInputExcept ==
    /\ pc = "except"
    /\ call.fn = "get_list_float_input"
    /\ stdout' = Append(stdout, list_message)
    /\ pc' = "while"
    /\ UNCHANGED <<call, locals, ret, stdin, stack>>

\* the lines an operator types at one prompt
InputLines ==
    {<<>>,
     <<"1", ".", "5">>,
     <<"-", "2">>,
     <<"a", "b", "c">>,
     <<" ", "7", " ">>,
     <<"1", "e", "2">>,
     <<"n", "a", "n">>,
     <<" ">>,
     <<"1", "_", "0">>}

\* the defaults a caller supplies
Defaults == {None, Zero, R(5)}

\* a pending call of get_float_input or get_int_input, on an input of at
\* most MaxLines lines
InitInput ==
    /\ pc = "call"
    /\ locals = None
    /\ ret = None
    /\ stdout = <<>>
    /\ stack = <<>>
    /\ \E fn \in InputFns, default \in Defaults :
           call = [fn |-> fn,
                   args |-> [prompt |-> "Enter a value: ", default |-> default]]
    /\ \E lines \in SeqsUpTo(InputLines, MaxLines) :
           stdin = [lines |-> lines, pos |-> 0]

NextInput ==
    \/ GetFloatInputRead
    \/ GetFloatInputReturn
    \/ GetFloatInputExcept
    \/ GetIntInputRead
    \/ GetIntInputReturn
    \/ GetIntInputExcept

SpecInput == InitInput /\ [][NextInput]_vars

-----------------------------------------------------------------------------
(* __main__, statement by statement.  A call pushes the caller's frame on   *)
(* the stack and the called function runs by its own actions; a formatted   *)
(* message is recorded by its format string.                                *)

welcome_message == "Welcome to the Damage Calculator CLI!"

test_mode_message == "Test mode detected, skipping interactive CLI."

choice_prompt ==
    "Do you want to calculate a character's ATK, HP, or DEF first? (yes/no, default: no): "

stat_type_prompt == "Which stat do you want to calculate? (atk/hp/def): "

stat_type_message == "Invalid stat type. Please choose 'atk', 'hp', or 'def'."

stat_total_message ==
    "Calculated Total {stat_type_choice.upper()}: {scaling_attribute_value:.2f}"

rule_message == "------------------------------"

header_message == "\nEnter parameters for Outgoing Damage Calculation:"

result_message == "Calculated Outgoing Damage: {final_damage:.2f}"

thanks_message == "Thank you for using the Damage Calculator!"

yes == <<"y", "e", "s">>

atk == <<"a", "t", "k">>

hp == <<"h", "p">>

def == <<"d", "e", "f">>

\* line 464
universal_dmg_reduction_sources_str == <<"0", ".", "1">>

\* the calls of get_float_input, get_int_input and get_list_float_input of
\* lines 423 to 426, 442 and 444 to 470, in program order; each assigns the
\* variable var
InputStatements ==
    <<
     [var |-> "char_base_stat", fn |-> "get_float_input",
      args |->
        [prompt |->
            "Enter Character Base {stat_type_choice.upper()}: ",
         default |-> None]],
     [var |-> "lc_base_stat", fn |-> "get_float_input",
      args |->
        [prompt |->
            "Enter Light Cone Base {stat_type_choice.upper()}: ",
         default |-> None]],
     [var |-> "stat_percent_bonus", fn |-> "get_float_input",
      args |->
        [prompt |->
            "Enter Total {stat_type_choice.upper()} Percent Bonus (e.g., 0.48 for 48%): ",
         default |-> None]],
     [var |-> "flat_stat_bonus", fn |-> "get_float_input",
      args |->
        [prompt |->
            "Enter Total Flat {stat_type_choice.upper()} Bonus: ",
         default |-> None]],
     [var |-> "scaling_attribute_value", fn |-> "get_float_input",
      args |->
        [prompt |->
            "Enter Scaling Attribute Value (ATK, HP, or DEF): ",
         default |-> None]],
     [var |-> "skill_multiplier", fn |-> "get_float_input",
      args |->
        [prompt |->
            "Enter Skill Multiplier (e.g., 0.6 for 60%): ",
         default |-> None]],
     [var |-> "extra_multiplier", fn |-> "get_float_input",
      args |->
        [prompt |->
            "Enter Extra Multiplier (e.g., 0.2 for 20%, default: 0): ",
         default |-> Zero]],
     [var |-> "extra_dmg", fn |-> "get_float_input",
      args |->
        [prompt |->
            "Enter Flat Extra Damage (default: 0): ",
         default |-> Zero]],
     [var |-> "elemental_dmg_bonus_percent", fn |-> "get_float_input",
      args |->
        [prompt |->
            "Enter Elemental DMG Bonus Percent (e.g., 0.389 for 38.9%): ",
         default |-> None]],
     [var |-> "all_type_dmg_bonus_percent", fn |-> "get_float_input",
      args |->
        [prompt |->
            "Enter All-Type DMG Bonus Percent (default: 0): ",
         default |-> Zero]],
     [var |-> "dot_dmg_bonus_percent", fn |-> "get_float_input",
      args |->
        [prompt |->
            "Enter DoT DMG Bonus Percent (default: 0): ",
         default |-> Zero]],
     [var |-> "other_dmg_bonus_percent", fn |-> "get_float_input",
      args |->
        [prompt |->
            "Enter Other DMG Bonus Percent (e.g., Basic ATK Bonus, default: 0): ",
         default |-> Zero]],
     [var |-> "attacker_level", fn |-> "get_int_input",
      args |->
        [prompt |->
            "Enter Attacker Level: ",
         default |-> None]],
     [var |-> "enemy_base_def", fn |-> "get_float_input",
      args |->
        [prompt |->
            "Enter Enemy Base DEF: ",
         default |-> None]],
     [var |-> "enemy_def_percent_buffs_debuffs", fn |-> "get_float_input",
      args |->
        [prompt |->
            "Enter Enemy DEF Percent Buffs/Debuffs (e.g., 0.2 for buff, -0.1 for debuff, default: 0): ",
         default |-> Zero]],
     [var |-> "def_reduction_percent", fn |-> "get_float_input",
      args |->
        [prompt |->
            "Enter DEF Reduction Percent (e.g., Pela ult, default: 0): ",
         default |-> Zero]],
     [var |-> "def_ignore_percent", fn |-> "get_float_input",
      args |->
        [prompt |->
            "Enter DEF Ignore Percent (e.g., Seele E2, default: 0): ",
         default |-> Zero]],
     [var |-> "enemy_current_res_percent", fn |-> "get_float_input",
      args |->
        [prompt |->
            "Enter Enemy Current RES Percent (e.g., 0.2 for neutral, 0 for weakness, 0.4 for resistance): ",
         default |-> None]],
     [var |-> "res_pen_percent", fn |-> "get_float_input",
      args |->
        [prompt |->
            "Enter RES Penetration Percent (default: 0): ",
         default |-> Zero]],
     [var |-> "elemental_dmg_taken_bonus_percent", fn |-> "get_float_input",
      args |->
        [prompt |->
            "Enter Elemental DMG Taken Bonus Percent (e.g., Welt ult, default: 0): ",
         default |-> Zero]],
     [var |-> "all_type_dmg_taken_bonus_percent", fn |-> "get_float_input",
      args |->
        [prompt |->
            "Enter All-Type DMG Taken Bonus Percent (default: 0): ",
         default |-> Zero]],
     [var |-> "universal_dmg_reduction_sources", fn |-> "get_list_float_input",
      args |->
        [prompt |->
            "Enter Universal DMG Reduction Sources (comma-separated floats, e.g., '0.1,0.05', default: '{universal_dmg_reduction_sources_str}' for enemy toughness): ",
         default_str |-> universal_dmg_reduction_sources_str]],
     [var |-> "weaken_percent", fn |-> "get_float_input",
      args |->
        [prompt |->
            "Enter Weaken Percent (e.g., 0.15 for 15%, default: 0): ",
         default |-> Zero]]
    >>

InputVars == {InputStatements[i].var : i \in 1..Len(InputStatements)}

StatementOf(var) ==
    CHOOSE i \in 1..Len(InputStatements) : InputStatements[i].var = var

\* the statement that follows the assignment of var
AfterInput(var) ==
    IF var = "flat_stat_bonus" THEN "stat_calc"
    ELSE IF var = "weaken_percent" THEN "final_damage"
    ELSE InputStatements[StatementOf(var) + 1].var

\* the variables of __main__ after line 412
main_locals(run_cli_interaction) ==
    [scaling_attribute_value           |-> Zero,
     run_cli_interaction               |-> run_cli_interaction,
     calculate_stat_first_choice       |-> None,
     stat_type_choice                  |-> None,
     char_base_stat                    |-> None,
     lc_base_stat                      |-> None,
     stat_percent_bonus                |-> None,
     flat_stat_bonus                   |-> None,
     skill_multiplier                  |-> None,
     extra_multiplier                  |-> None,
     extra_dmg                         |-> None,
     elemental_dmg_bonus_percent       |-> None,
     all_type_dmg_bonus_percent        |-> None,
     dot_dmg_bonus_percent             |-> None,
     other_dmg_bonus_percent           |-> None,
     attacker_level                    |-> None,
     enemy_base_def                    |-> None,
     enemy_def_percent_buffs_debuffs   |-> None,
     def_reduction_percent             |-> None,
     def_ignore_percent                |-> None,
     enemy_current_res_percent         |-> None,
     res_pen_percent                   |-> None,
     elemental_dmg_taken_bonus_percent |-> None,
     all_type_dmg_taken_bonus_percent  |-> None,
     universal_dmg_reduction_sources   |-> None,
     weaken_percent                    |-> None,
     final_damage                      |-> None]

\* lines 402 to 412
run_cli_interaction(isatty, argv) ==
    ~(~isatty /\ ("test" \in argv \/ "run_examples" \in argv))

\* the stat aggregator of lines 428 to 433
stat_function(stat_type_choice) ==
    IF stat_type_choice = atk THEN "calculate_total_atk"
    ELSE IF stat_type_choice = hp THEN "calculate_total_hp"
    ELSE "calculate_total_def"

\* the arguments of lines 429, 431 and 433
stat_args(l) ==
    [base          |-> l.char_base_stat,
     lc_base       |-> l.lc_base_stat,
     percent_bonus |-> l.stat_percent_bonus,
     flat_bonus    |-> l.flat_stat_bonus]

\* the arguments of lines 473 to 493
damage_args(l) ==
    [skill_multiplier                  |-> l.skill_multiplier,
     scaling_attribute_value           |-> l.scaling_attribute_value,
     extra_multiplier                  |-> l.extra_multiplier,
     extra_dmg                         |-> l.extra_dmg,
     elemental_dmg_bonus_percent       |-> l.elemental_dmg_bonus_percent,
     all_type_dmg_bonus_percent        |-> l.all_type_dmg_bonus_percent,
     dot_dmg_bonus_percent             |-> l.dot_dmg_bonus_percent,
     other_dmg_bonus_percent           |-> l.other_dmg_bonus_percent,
     attacker_level                    |-> l.attacker_level.n,
     enemy_base_def                    |-> l.enemy_base_def,
     enemy_def_percent_buffs_debuffs   |-> l.enemy_def_percent_buffs_debuffs,
     def_reduction_percent             |-> l.def_reduction_percent,
     def_ignore_percent                |-> l.def_ignore_percent,
     enemy_current_res_percent         |-> l.enemy_current_res_percent,
     res_pen_percent                   |-> l.res_pen_percent,
     elemental_dmg_taken_bonus_percent |-> l.elemental_dmg_taken_bonus_percent,
     all_type_dmg_taken_bonus_percent  |-> l.all_type_dmg_taken_bonus_percent,
     universal_dmg_reduction_sources   |-> l.universal_dmg_reduction_sources,
     weaken_percent                    |-> l.weaken_percent]

\* line 441: if scaling_attribute_value == 0.0
prompts_for_scaling(l) == l.scaling_attribute_value = Zero

\* the frame of a caller
Frame == [call |-> call, locals |-> locals, pc |-> pc]

\* lines 395 to 414
MainStart ==
    /\ pc = "call"
    /\ call.fn = "__main__"
    /\ LET run == run_cli_interaction(call.args.isatty, call.args.argv)
       IN  /\ locals' = main_locals(run)
           /\ stdout' = IF run THEN <<welcome_message>>
                        ELSE <<welcome_message, test_mode_message>>
           /\ pc' = IF run THEN "calculate_stat_first_choice" ELSE "examples"
    /\ UNCHANGED <<call, ret, stdin, stack>>

\* lines 415 to 417
MainChoice ==
    /\ pc = "calculate_stat_first_choice"
    /\ call.fn = "__main__"
    /\ stdout' = Append(stdout, choice_prompt)
    /\ IF stdin.pos < Len(stdin.lines)
       THEN LET choice == lower(strip(stdin.lines[stdin.pos + 1]))
            IN  /\ stdin' = [stdin EXCEPT !.pos = @ + 1]
                /\ IF choice = yes
                   THEN /\ locals' =
                               [locals EXCEPT
                                   !.calculate_stat_first_choice = choice,
                                   !.stat_type_choice = <<>>]
                        /\ pc' = "stat_type_choice"
                   ELSE /\ locals' =
                               [locals EXCEPT
                                   !.calculate_stat_first_choice = choice]
                        /\ pc' = "header"
                /\ UNCHANGED ret
       ELSE /\ ret' = EOFError
            /\ pc' = "raised"
            /\ UNCHANGED <<stdin, locals>>
    /\ UNCHANGED <<call, stack>>

\* lines 418 to 421, one iteration of the loop
MainStatType ==
    /\ pc = "stat_type_choice"
    /\ call.fn = "__main__"
    /\ stdout' = Append(stdout, stat_type_prompt)
          \o IF /\ stdin.pos < Len(stdin.lines)
                /\ lower(strip(stdin.lines[stdin.pos + 1])) \notin {atk, hp, def}
             THEN <<stat_type_message>>
             ELSE <<>>
    /\ IF stdin.pos < Len(stdin.lines)
       THEN LET choice == lower(strip(stdin.lines[stdin.pos + 1]))
            IN  /\ stdin' = [stdin EXCEPT !.pos = @ + 1]
                /\ locals' = [locals EXCEPT !.stat_type_choice = choice]
                /\ pc' = IF choice \in {atk, hp, def}
                         THEN "char_base_stat"
                         ELSE "stat_type_choice"
                /\ UNCHANGED ret
       ELSE /\ ret' = EOFError
            /\ pc' = "raised"
            /\ UNCHANGED <<stdin, locals>>
    /\ UNCHANGED <<call, stack>>

\* a call of lines 423 to 426, 442 or 444 to 470
MainCallInput ==
    /\ pc \in InputVars
    /\ call.fn = "__main__"
    /\ LET s == InputStatements[StatementOf(pc)]
       IN  call' = [fn |-> s.fn, args |-> s.args]
    /\ stack' = <<Frame>> \o stack
    /\ locals' = None
    /\ pc' = "call"
    /\ UNCHANGED <<ret, stdin, stdout>>

\* the value returned is assigned and __main__ goes on
MainAssignInput ==
    /\ pc = "returned"
    /\ stack # <<>>
    /\ Head(stack).pc \in InputVars
    /\ LET f == Head(stack)
       IN  /\ call' = f.call
           /\ locals' = [f.locals EXCEPT ![f.pc] = ret]
           /\ pc' = AfterInput(f.pc)
    /\ stack' = Tail(stack)
    /\ UNCHANGED <<ret, stdin, stdout>>

\* an exception no handler catches ends the caller as well
MainPropagate ==
    /\ pc = "raised"
    /\ stack # <<>>
    /\ call' = Head(stack).call
    /\ locals' = Head(stack).locals
    /\ stack' = Tail(stack)
    /\ UNCHANGED <<pc, ret, stdin, stdout>>

\* the call of line 429, 431 or 433
MainCallStat ==
    /\ pc = "stat_calc"
    /\ call.fn = "__main__"
    /\ call' = [fn |-> stat_function(locals.stat_type_choice),
                args |-> stat_args(locals)]
    /\ stack' = <<Frame>> \o stack
    /\ locals' = None
    /\ pc' = "call"
    /\ UNCHANGED <<ret, stdin, stdout>>

\* the assignment of line 429, 431 or 433, and lines 435 and 436
MainAssignStat ==
    /\ pc = "returned"
    /\ stack # <<>>
    /\ Head(stack).pc = "stat_calc"
    /\ LET f == Head(stack)
       IN  /\ call' = f.call
           /\ locals' = [f.locals EXCEPT !.scaling_attribute_value = ret]
    /\ stdout' = stdout \o <<stat_total_message, rule_message>>
    /\ pc' = "header"
    /\ stack' = Tail(stack)
    /\ UNCHANGED <<ret, stdin>>

\* lines 439 and 441
MainHeader ==
    /\ pc = "header"
    /\ call.fn = "__main__"
    /\ stdout' = Append(stdout, header_message)
    /\ pc' = IF prompts_for_scaling(locals)
             THEN "scaling_attribute_value"
             ELSE "skill_multiplier"
    /\ UNCHANGED <<call, locals, ret, stdin, stack>>

\* the call of lines 473 to 493
MainCallDamage ==
    /\ pc = "final_damage"
    /\ call.fn = "__main__"
    /\ call' = [fn |-> "calculate_outgoing_damage", args |-> damage_args(locals)]
    /\ stack' = <<Frame>> \o stack
    /\ locals' = None
    /\ pc' = "call"
    /\ UNCHANGED <<ret, stdin, stdout>>

\* the assignment of line 473, and lines 495 to 498
MainAssignDamage ==
    /\ pc = "returned"
    /\ stack # <<>>
    /\ Head(stack).pc = "final_damage"
    /\ LET f == Head(stack)
       IN  /\ call' = f.call
           /\ locals' = [f.locals EXCEPT !.final_damage = ret]
    /\ stdout' = stdout
          \o <<rule_message, result_message, rule_message, thanks_message>>
    /\ pc' = "examples"
    /\ stack' = Tail(stack)
    /\ UNCHANGED <<ret, stdin>>

\* the call of line 501
MainCallExamples ==
    /\ pc = "examples"
    /\ call.fn = "__main__"
    /\ call' = [fn |-> "run_prydwen_examples"]
    /\ stack' = <<Frame>> \o stack
    /\ locals' = None
    /\ pc' = "call"
    /\ UNCHANGED <<ret, stdin, stdout>>

\* run_prydwen_examples has returned: the program ends
MainExit ==
    /\ pc = "returned"
    /\ stack # <<>>
    /\ Head(stack).pc = "examples"
    /\ call' = Head(stack).call
    /\ locals' = Head(stack).locals
    /\ stack' = Tail(stack)
    /\ UNCHANGED <<pc, ret, stdin, stdout>>

-----------------------------------------------------------------------------
(* The program run: __main__ on the lines an operator types *)

\* answers to the question of line 415
ChoiceLines == {<<"y", "e", "s">>, <<" ", "Y", "e", "s", " ">>, <<"n", "o">>, <<>>}

\* answers to the question of line 419
StatTypeLines == {<<"a", "t", "k">>, <<"h", "p">>, <<" ", "D", "E", "F", " ">>}

InvalidStatTypeLines == {<<"x", "y", "z">>}

\* up to MaxRetries invalid stat types, then a valid one
StatTypeScripts ==
    {Append(q, t) : q \in SeqsUpTo(InvalidStatTypeLines, MaxRetries),
                    t \in StatTypeLines}

\* the four stat inputs of lines 423 to 426
StatScripts ==
    {<<b, l, p, f>> : b \in {<<"0">>, <<"2">>},
                      l \in {<<"0">>, <<"1">>},
                      p \in {<<"0">>, <<"-", "1">>},
                      f \in {<<"0">>, <<"-", "3">>}}

\* the answer to the prompt of line 442, typed or not
ScalingScripts == {<<>>, <<<<"1", "0">>>>}

\* the answers to the prompts of lines 444 to 470: the defaults taken where
\* there are some, and a session with rejected lines
ParameterScripts ==
    {<<
        <<"0", ".", "5">>, <<>>, <<>>, <<"0", ".", "2", "5">>, <<>>, <<>>,
        <<>>, <<"5", "0">>, <<"2", "0", "0">>, <<>>, <<>>, <<>>,
        <<"0", ".", "2">>, <<>>, <<>>, <<>>, <<>>, <<>>
      >>,
      <<
        <<"1">>, <<"0", ".", "5">>, <<"5">>, <<"a", "b", "c">>,
        <<"0", ".", "2", "5">>, <<>>, <<>>, <<"0", ".", "5">>,
        <<"5", ".", "5">>, <<"8", "0">>, <<"2", "0", "0">>,
        <<"0", ".", "5">>, <<"0", ".", "2", "5">>, <<>>, <<"0", ".", "2">>,
        <<"0", ".", "1">>, <<>>, <<"0", ".", "2", "5">>,
        <<"0", ".", "1", ";", "0", ".", "0", "5">>,
        <<"0", ".", "1", ",", "0", ".", "0", "5">>, <<"0", ".", "2", "5">>
      >>}

\* everything an operator types in a session: the answer to the first
\* question, then possibly a stat type and four stat inputs, possibly a
\* scaling attribute value, and the parameters
Sessions ==
    {<<choice>> \o stat \o scaling \o parameters :
        choice \in ChoiceLines,
        stat \in {<<>>} \cup {t \o s : t \in StatTypeScripts, s \in StatScripts},
        scaling \in ScalingScripts,
        parameters \in ParameterScripts}

\* a terminal, no arguments
Interactive == [isatty |-> TRUE, argv |-> {}]

\* the other ways the program is started: input piped in, with and without
\* the arguments that skip the questions
Environments ==
    {[isatty |-> FALSE, argv |-> {}],
      [isatty |-> TRUE, argv |-> {"test"}],
      [isatty |-> FALSE, argv |-> {"test"}],
      [isatty |-> FALSE, argv |-> {"run_examples"}]}

\* the session of an operator who declines the stat calculation
PlainSession ==
    <<<<"n", "o">>, <<"1", "0">>,
        <<"0", ".", "5">>, <<>>, <<>>, <<"0", ".", "2", "5">>, <<>>, <<>>,
        <<>>, <<"5", "0">>, <<"2", "0", "0">>, <<>>, <<>>, <<>>,
        <<"0", ".", "2">>, <<>>, <<>>, <<>>, <<>>, <<>>
    >>

InitMain ==
    /\ pc = "call"
    /\ locals = None
    /\ ret = None
    /\ stdout = <<>>
    /\ stack = <<>>
    /\ \/ /\ call = [fn |-> "__main__", args |-> Interactive]
          /\ \E lines \in Sessions : stdin = [lines |-> lines, pos |-> 0]
       \/ /\ \E env \in Environments : call = [fn |-> "__main__", args |-> env]
          /\ stdin = [lines |-> PlainSession, pos |-> 0]

NextMain ==
    \/ MainStart
    \/ MainChoice
    \/ MainStatType
    \/ MainCallInput
    \/ MainAssignInput
    \/ MainPropagate
    \/ MainCallStat
    \/ MainAssignStat
    \/ MainHeader
    \/ MainCallDamage
    \/ MainAssignDamage
    \/ MainCallExamples
    \/ MainExit
    \/ GetFloatInputRead
    \/ GetFloatInputReturn
    \/ GetFloatInputExcept
    \/ GetIntInputRead
    \/ GetIntInputReturn
    \/ GetIntInputExcept
    \/ GetListFloatInputRead
    \/ GetListFloatInputReturn
    \/ GetListFloatInputExcept
    \/ CalculateOutgoingDamage
    \/ CalculateTotalAtk
    \/ CalculateTotalHp
    \/ CalculateTotalDef
    \/ RunPrydwenExamples

SpecMain == InitMain /\ [][NextMain]_vars

-----------------------------------------------------------------------------
(* Properties *)

DamageCall == call.fn = "calculate_outgoing_damage"

DamageReturned == pc = "returned" /\ DamageCall

StatReturned == pc = "returned" /\ call.fn \in StatFns

\* every bonus, reduction and penetration is 0, the enemy has no defense and
\* no resistance, and there is no reduction source
ZeroBonus(a) ==
    /\ a.elemental_dmg_bonus_percent = Zero
    /\ a.all_type_dmg_bonus_percent = Zero
    /\ a.dot_dmg_bonus_percent = Zero
    /\ a.other_dmg_bonus_percent = Zero
    /\ a.enemy_base_def = Zero
    /\ a.enemy_def_percent_buffs_debuffs = Zero
    /\ a.def_reduction_percent = Zero
    /\ a.def_ignore_percent = Zero
    /\ a.enemy_current_res_percent = Zero
    /\ a.res_pen_percent = Zero
    /\ a.elemental_dmg_taken_bonus_percent = Zero
    /\ a.all_type_dmg_taken_bonus_percent = Zero
    /\ a.universal_dmg_reduction_sources = <<>>
    /\ a.weaken_percent = Zero

\* C1: calculate_outgoing_damage returns the product of the seven factors
\* base damage ((skill_multiplier + extra_multiplier) * scaling_attribute_value
\* + extra_dmg), damage percent multiplier (1 + the four damage bonuses),
\* defense multiplier, resistance multiplier, damage-taken multiplier (1 + the
\* two damage-taken bonuses), universal reduction multiplier and weaken
\* multiplier (1 - weaken_percent); the enemy final defense is no factor of
\* its own.  With every modifier at 0 the result is the base damage.
C1_ProductOfSevenFactors ==
    DamageReturned =>
        LET a == call.args
            base == RAdd(RMul(RAdd(a.skill_multiplier, a.extra_multiplier),
                              a.scaling_attribute_value),
                         a.extra_dmg)
        IN  /\ locals.base_dmg = base
            /\ locals.dmg_percent_multiplier =
                   RAdd(One, RAdd(RAdd(a.elemental_dmg_bonus_percent,
                                       a.all_type_dmg_bonus_percent),
                                  RAdd(a.dot_dmg_bonus_percent,
                                       a.other_dmg_bonus_percent)))
            /\ locals.dmg_taken_multiplier =
                   RAdd(One, RAdd(a.elemental_dmg_taken_bonus_percent,
                                  a.all_type_dmg_taken_bonus_percent))
            /\ locals.weaken_multiplier = RSub(One, a.weaken_percent)
            /\ ret = RMul(locals.base_dmg,
                     RMul(locals.dmg_percent_multiplier,
                     RMul(locals.def_multiplier,
                     RMul(locals.res_multiplier,
                     RMul(locals.dmg_taken_multiplier,
                     RMul(locals.universal_dmg_reduction_multiplier,
                          locals.weaken_multiplier))))))
            /\ ZeroBonus(a) => ret = base

\* a call has returned in which each of the seven factors differs from 1
C1_Witness ==
    /\ DamageReturned
    /\ locals.base_dmg # One
    /\ locals.dmg_percent_multiplier # One
    /\ locals.def_multiplier # One
    /\ locals.res_multiplier # One
    /\ locals.dmg_taken_multiplier # One
    /\ locals.universal_dmg_reduction_multiplier # One
    /\ locals.weaken_multiplier # One
    /\ ret # Zero

\* C2: calculate_total_atk, calculate_total_hp and calculate_total_def each
\* return (base + equipment base) * (1 + percent bonus) + flat bonus, so the
\* three agree on the same arguments; with percent bonus 0 and flat bonus 0
\* each returns base + equipment base.
C2_StatAggregators ==
    StatReturned =>
        LET s == call.args
        IN  /\ ret = RAdd(RMul(RAdd(s.base, s.lc_base),
                               RAdd(One, s.percent_bonus)),
                          s.flat_bonus)
            /\ calculate_total_atk(s) = ret
            /\ calculate_total_hp(s) = ret
            /\ calculate_total_def(s) = ret
            /\ (s.percent_bonus = Zero /\ s.flat_bonus = Zero)
                   => ret = RAdd(s.base, s.lc_base)

\* a stat aggregator has returned on a negative base, a negative percent bonus
\* and a flat bonus
C2_Witness ==
    /\ StatReturned
    /\ RLt(call.args.base, Zero)
    /\ RLt(call.args.percent_bonus, Zero)
    /\ call.args.flat_bonus # Zero
    /\ call.args.lc_base # Zero

\* def_reduction_percent + def_ignore_percent - enemy_def_percent_buffs_debuffs
\* exceeds 1
ReductionExceedsOne(a) ==
    RLt(One, RSub(RAdd(a.def_reduction_percent, a.def_ignore_percent),
                  a.enemy_def_percent_buffs_debuffs))

\* C3 as stated: whenever def_reduction_percent + def_ignore_percent -
\* enemy_def_percent_buffs_debuffs exceeds 1, for any enemy_base_def and any
\* attacker_level, the enemy final defense is clamped to 0 and the defense
\* multiplier is 1.
C3_DefenseFloorAnyBaseDef ==
    (DamageReturned /\ ReductionExceedsOne(call.args)) =>
        /\ locals.enemy_final_def = Zero
        /\ locals.def_multiplier = One

\* C3, amended: whenever def_reduction_percent + def_ignore_percent -
\* enemy_def_percent_buffs_debuffs exceeds 1 and enemy_base_def is not
\* negative, for any attacker_level, the enemy final defense is clamped to 0
\* and the defense multiplier is 1.
C3_DefenseFloor ==
    (/\ DamageReturned
     /\ ReductionExceedsOne(call.args)
     /\ RLe(Zero, call.args.enemy_base_def)) =>
        /\ locals.enemy_final_def = Zero
        /\ locals.def_multiplier = One

\* a call has returned whose reductions exceed 1 on a positive enemy_base_def,
\* so that the floor, not the product, makes the final defense 0
C3_Witness ==
    /\ DamageReturned
    /\ ReductionExceedsOne(call.args)
    /\ RLt(Zero, call.args.enemy_base_def)
    /\ locals.enemy_final_def = Zero

\* clamp(x, -1.0, 0.9)
Clamp(x) ==
    IF RLt(x, R(-1)) THEN R(-1)
    ELSE IF RLt(Frac(9, 10), x) THEN Frac(9, 10)
    ELSE x

\* the result of the call with no resistance and no penetration, whose
\* resistance multiplier is 1: the damage before resistance
WithoutResistance ==
    calculate_outgoing_damage([call.args EXCEPT !.enemy_current_res_percent = Zero,
                                                !.res_pen_percent = Zero])

RECURSIVE SourceProduct(_)
SourceProduct(sources) ==
    IF sources = <<>> THEN One
    ELSE RMul(RSub(One, sources[Len(sources)]),
              SourceProduct(SubSeq(sources, 1, Len(sources) - 1)))

\* every reordering of a list
Reorderings(sources) ==
    LET n == Len(sources)
    IN  {[i \in 1..n |-> sources[p[i]]] :
            p \in {q \in [1..n -> 1..n] :
                      \A i, j \in 1..n : i # j => q[i] # q[j]}}

\* the product of the six factors other than the universal reduction
\* multiplier
WithoutUniversal ==
    RMul(RMul(RMul(RMul(RMul(locals.base_dmg, locals.dmg_percent_multiplier),
                        locals.def_multiplier),
                   locals.res_multiplier),
              locals.dmg_taken_multiplier),
         locals.weaken_multiplier)

\* C5: for every list r1..rn of reduction sources the universal reduction
\* multiplier is (1-r1)*...*(1-rn) with every element folded in; the call
\* returns what a call with the single source 1 - (1-r1)*...*(1-rn) returns
\* and what a call with any reordering of the list returns; the empty list
\* gives the multiplier 1, the result without reduction.
C5_ReductionFold ==
    DamageReturned =>
        LET a == call.args
            sources == a.universal_dmg_reduction_sources
            single == RSub(One, SourceProduct(sources))
        IN  /\ locals.universal_dmg_reduction_multiplier = SourceProduct(sources)
            /\ ret = calculate_outgoing_damage(
                         [a EXCEPT !.universal_dmg_reduction_sources = <<single>>])
            /\ \A p \in Reorderings(sources) :
                   ret = calculate_outgoing_damage(
                             [a EXCEPT !.universal_dmg_reduction_sources = p])
            /\ sources = <<>> =>
                   /\ locals.universal_dmg_reduction_multiplier = One
                   /\ ret = WithoutUniversal

\* a call with the sources [0.1, 0.05], which fold to the single source
\* 0.145, has returned a damage other than 0
C5_Witness ==
    /\ DamageReturned
    /\ call.args.universal_dmg_reduction_sources = <<Frac(1, 10), Frac(1, 20)>>
    /\ RSub(One, locals.universal_dmg_reduction_multiplier) = Frac(145, 1000)
    /\ <<Frac(1, 20), Frac(1, 10)>>
           \in Reorderings(call.args.universal_dmg_reduction_sources)
    /\ ret # Zero

InUnit(x) == RLe(Zero, x) /\ RLe(x, One)

\* the weaken percents a call is compared against
WeakenProbes == {Zero, Frac(1, 4), Frac(1, 2), One}

\* the sign of x: -1, 0 or 1
Sign(x) == IF x.n < 0 THEN -1 ELSE IF x.n = 0 THEN 0 ELSE 1

\* the sign of the product of the six factors other than the weaken
\* multiplier
SignWithoutWeaken ==
    Sign(locals.base_dmg) * Sign(locals.dmg_percent_multiplier)
        * Sign(locals.def_multiplier) * Sign(locals.res_multiplier)
        * Sign(locals.dmg_taken_multiplier)
        * Sign(locals.universal_dmg_reduction_multiplier)

\* the result of the call with weaken_percent replaced by w
WithWeaken(w) ==
    calculate_outgoing_damage([call.args EXCEPT !.weaken_percent = w])

\* C6 as stated: of two calls that differ only in weaken_percent, both values
\* in [0,1], all other inputs at any accepted values, the one with the larger
\* weaken_percent returns a strictly smaller result.
C6_WeakenStrictlyDecreasesAlways ==
    (DamageReturned /\ InUnit(call.args.weaken_percent)) =>
        \A w \in WeakenProbes :
            RLt(call.args.weaken_percent, w) => RLt(WithWeaken(w), ret)

\* C6, amended: of two calls that differ only in weaken_percent, both values
\* in [0,1], the one with the larger weaken_percent returns a strictly smaller
\* result when the product of the other six factors is positive, the same
\* result when that product is 0, and a strictly larger one when it is
\* negative.
C6_WeakenMonotone ==
    (DamageReturned /\ InUnit(call.args.weaken_percent)) =>
        \A w \in WeakenProbes :
            RLt(call.args.weaken_percent, w) =>
                /\ SignWithoutWeaken > 0 => RLt(WithWeaken(w), ret)
                /\ SignWithoutWeaken = 0 => WithWeaken(w) = ret
                /\ SignWithoutWeaken < 0 => RLt(ret, WithWeaken(w))

\* a call with weaken_percent 0.25 and a positive product of the other
\* factors has returned, and the call with weaken_percent 0.5 returns less
C6_Witness ==
    /\ DamageReturned
    /\ call.args.weaken_percent = Frac(1, 4)
    /\ SignWithoutWeaken > 0
    /\ RLt(WithWeaken(Frac(1, 2)), ret)

\* the penetrations a call is compared against
PenProbes == {Zero, Frac(1, 10), Frac(1, 2), Frac(3, 2), R(7)}

\* the sign of the product of the six factors other than the resistance
\* multiplier
SignWithoutRes ==
    Sign(locals.base_dmg) * Sign(locals.dmg_percent_multiplier)
        * Sign(locals.def_multiplier) * Sign(locals.dmg_taken_multiplier)
        * Sign(locals.universal_dmg_reduction_multiplier)
        * Sign(locals.weaken_multiplier)

\* the result of the call with res_pen_percent replaced by p
WithPen(p) ==
    calculate_outgoing_damage([call.args EXCEPT !.res_pen_percent = p])

\* C7 as stated: of two calls that differ only in res_pen_percent, all other
\* inputs at any accepted values, the one with the larger res_pen_percent
\* returns a result greater than or equal to the other.
C7_PenNeverDecreasesAlways ==
    DamageReturned =>
        \A p \in PenProbes :
            RLt(call.args.res_pen_percent, p) => RLe(ret, WithPen(p))

\* C7, amended: of two calls that differ only in res_pen_percent, the one
\* with the larger res_pen_percent returns a result greater than or equal to
\* the other when the product of the other six factors is not negative, and a
\* result less than or equal to the other when that product is negative.
C7_PenMonotone ==
    DamageReturned =>
        \A p \in PenProbes :
            RLt(call.args.res_pen_percent, p) =>
                /\ SignWithoutRes >= 0 => RLe(ret, WithPen(p))
                /\ SignWithoutRes < 0 => RLe(WithPen(p), ret)

\* a call with res_pen_percent 0.1 and a positive product of the other
\* factors has returned, and the call with res_pen_percent 0.5 returns more
C7_Witness ==
    /\ DamageReturned
    /\ call.args.res_pen_percent = Frac(1, 10)
    /\ SignWithoutRes > 0
    /\ RLt(ret, WithPen(Frac(1, 2)))

ExamplesReturned == pc = "returned" /\ call.fn = "run_prydwen_examples"

\* a is within 1.0 of the integer e
WithinOne(a, e) == RLe(RAbs(RSub(a, R(e))), One)

\* C8: on the arguments of the five examples (Tingyun: skill multiplier 0.6,
\* scaling value 1062, elemental bonus 0.258, other bonus 0.1, level 50, enemy
\* base defense 700; Qingque: 0.7, 1432, 0.186, all-type bonus 0.15, other
\* bonus 0.1) calculate_outgoing_damage is within 1.0 of 312 (resistance 0.2,
\* sources [0.1]), 346 (resistance 0.2, no source), 389 (resistance 0,
\* sources [0.1]), 518 (resistance 0.2, sources [0.1]) and 648 (resistance 0,
\* sources [0.1]).
C8_RegressionOracle ==
    ExamplesReturned =>
        /\ WithinOne(locals.calculated_dmg[1], 312)
        /\ WithinOne(locals.calculated_dmg[2], 346)
        /\ WithinOne(locals.calculated_dmg[3], 389)
        /\ WithinOne(locals.calculated_dmg[4], 518)
        /\ WithinOne(locals.calculated_dmg[5], 648)

\* the example runner has returned; its first damage is 311.514336 and each
\* of its five tests passed
C8_Witness ==
    /\ ExamplesReturned
    /\ locals.calculated_dmg[1] = Frac(311514336, 1000000)
    /\ \A i \in 1..5 : locals.passed[i]

\* C9: calculate_outgoing_damage never fails: every call, negative attacker
\* levels and implausible percentages included, returns a number and never
\* divides by zero, and whenever the defense denominator enemy_final_def +
\* 200 + 10 * attacker_level is exactly 0 the defense multiplier is 1.
C9_NeverDividesByZero ==
    (DamageCall /\ pc # "call") =>
        /\ pc = "returned"
        /\ IsNum(ret)
        /\ IsNum(locals.def_multiplier)
        /\ locals.def_multiplier_denominator =
               RAdd(locals.enemy_final_def,
                    R(200 + 10 * call.args.attacker_level))
        /\ locals.def_multiplier_denominator = Zero =>
               locals.def_multiplier = One

\* a call with a negative attacker level has returned whose defense
\* denominator is 0 on a positive final defense
C9_Witness ==
    /\ DamageReturned
    /\ call.args.attacker_level < 0
    /\ RLt(Zero, locals.enemy_final_def)
    /\ locals.def_multiplier_denominator = Zero
    /\ locals.def_multiplier = One
    /\ ret # Zero

\* C10 as stated: whenever the defense denominator is zero or negative the
\* defense multiplier is 1 instead of a quotient by that denominator.
C10_NonPositiveDenominatorGuarded ==
    (DamageReturned /\ RLe(locals.def_multiplier_denominator, Zero)) =>
        locals.def_multiplier = One

\* C10, amended: the zero defense denominator is guarded, the defense
\* multiplier then being 1; a negative denominator is divided by, the
\* multiplier then being 1 - enemy_final_def / denominator, which is at least
\* 1 and above 1 exactly when the enemy final defense is above 0.
C10_ZeroDenominatorGuarded ==
    DamageReturned =>
        /\ locals.def_multiplier_denominator = Zero =>
               locals.def_multiplier = One
        /\ RLt(locals.def_multiplier_denominator, Zero) =>
               /\ locals.def_multiplier =
                      RSub(One, RDiv(locals.enemy_final_def,
                                     locals.def_multiplier_denominator))
               /\ RLe(One, locals.def_multiplier)
               /\ RLt(One, locals.def_multiplier)
                      <=> RLt(Zero, locals.enemy_final_def)

\* a call has returned whose defense denominator is negative on a positive
\* final defense, with a defense multiplier above 1
C10_Witness ==
    /\ DamageReturned
    /\ RLt(locals.def_multiplier_denominator, Zero)
    /\ RLt(Zero, locals.enemy_final_def)
    /\ RLt(One, locals.def_multiplier)

\* C11: for every input record with attacker_level >= 0, whatever the enemy
\* base defense, buff, reduction and ignore values, the enemy final defense is
\* >= 0, the defense denominator is >= 200, so the zero-denominator branch is
\* not taken and the defense multiplier is the quotient form
\* 1 - enemy_final_def / denominator, which lies in (0, 1] and is exactly 1 if
\* and only if the enemy final defense is 0.
C11_DefenseInvariants ==
    (DamageReturned /\ call.args.attacker_level >= 0) =>
        /\ RLe(Zero, locals.enemy_final_def)
        /\ RLe(R(200), locals.def_multiplier_denominator)
        /\ locals.def_multiplier_denominator # Zero
        /\ locals.def_multiplier =
               RSub(One, RDiv(locals.enemy_final_def,
                              locals.def_multiplier_denominator))
        /\ RLt(Zero, locals.def_multiplier)
        /\ RLe(locals.def_multiplier, One)
        /\ locals.def_multiplier = One <=> locals.enemy_final_def = Zero

\* a call with a positive attacker level has returned whose final defense is
\* positive and whose defense multiplier is strictly between 0 and 1
C11_Witness ==
    /\ DamageReturned
    /\ call.args.attacker_level > 0
    /\ RLt(Zero, locals.enemy_final_def)
    /\ RLt(Zero, locals.def_multiplier)
    /\ RLt(locals.def_multiplier, One)

InputCall == call.fn \in InputFns

\* float() or int(), whichever the called function applies, accepts the line
Parses(fn, line) ==
    IF fn = "get_float_input" THEN float_accepts(line) ELSE int_accepts(line)

\* the number the line parses to
Parsed(fn, line) ==
    IF fn = "get_float_input" THEN float_value(line) ELSE int_value(line)

\* line i of the input is acceptable: it is empty and a default was
\* supplied, or it parses
Acceptable(i) ==
    \/ call.args.default # None /\ stdin.lines[i] = <<>>
    \/ Parses(call.fn, stdin.lines[i])

\* the value line i determines
Determined(i) ==
    IF call.args.default # None /\ stdin.lines[i] = <<>>
    THEN call.args.default
    ELSE Parsed(call.fn, stdin.lines[i])

\* the position of the first acceptable line, 0 if there is none
FirstAcceptable ==
    IF \E i \in 1..Len(stdin.lines) : Acceptable(i)
    THEN CHOOSE i \in 1..Len(stdin.lines) :
             /\ Acceptable(i)
             /\ \A j \in 1..(i - 1) : ~Acceptable(j)
    ELSE 0

ErrorMessage ==
    IF call.fn = "get_float_input" THEN float_message ELSE int_message

\* the first n outputs of a call: prompt, message, prompt, message, ...
Transcript(n) ==
    [i \in 1..n |-> IF i % 2 = 1 THEN call.args.prompt ELSE ErrorMessage]

\* a float or an int
IsNumeric(v) ==
    /\ DOMAIN v \in {{"n", "d"}, {"n", "d", "special"}}
    /\ IsNum(v) \/ v \in {float_inf(1), float_inf(-1), float_nan}

\* C12: for every sequence of input lines, get_float_input and get_int_input
\* return on the first acceptable line, having read nothing after it: the
\* default when that line is empty and a default was supplied, otherwise the
\* number it parses to.  Every earlier line (text that does not parse, or an
\* empty line when no default was supplied) has been answered by the error
\* message followed by a new prompt, and by nothing else.  The value returned
\* is numeric.  The loop never reads past an acceptable line: it is still
\* running only while every line read and judged so far was rejected, and it
\* ends only by returning or, at the end of the input, by the EOFError of
\* input().
C12_InputLoop ==
    InputCall =>
        LET first == FirstAcceptable
            pos   == stdin.pos
        IN  /\ pc \in {"call", "while", "try", "except", "returned", "raised"}
            /\ pc = "returned" =>
                   /\ first # 0
                   /\ pos = first
                   /\ ret = Determined(first)
                   /\ IsNumeric(ret)
                   /\ stdout = Transcript(2 * first - 1)
            /\ pc = "raised" =>
                   /\ first = 0
                   /\ ret = EOFError
                   /\ pos = Len(stdin.lines)
                   /\ stdout = Transcript(2 * pos + 1)
            /\ pc \in {"call", "while"} =>
                   /\ \A i \in 1..pos : ~Acceptable(i)
                   /\ stdout = Transcript(2 * pos)
            /\ pc = "try" =>
                   /\ \A i \in 1..(pos - 1) : ~Acceptable(i)
                   /\ locals.user_input = stdin.lines[pos]
                   /\ stdout = Transcript(2 * pos - 1)
            /\ pc = "except" =>
                   /\ \A i \in 1..pos : ~Acceptable(i)
                   /\ stdout = Transcript(2 * pos - 1)

\* get_float_input, called without a default, has returned 1.5 on the third
\* line, after a line of text and an empty line
C12_Witness ==
    /\ InputCall
    /\ call.fn = "get_float_input"
    /\ call.args.default = None
    /\ pc = "returned"
    /\ stdin.pos = 3
    /\ stdin.lines[1] = <<"a", "b", "c">>
    /\ stdin.lines[2] = <<>>
    /\ stdin.lines[3] = <<"1", ".", "5">>
    /\ ret = Frac(3, 2)
    /\ stdout = <<call.args.prompt, float_message, call.args.prompt,
                  float_message, call.args.prompt>>

\* the variables of __main__, whether it runs or waits for a call to return
MainLocals == IF stack = <<>> THEN locals ELSE stack[Len(stack)].locals

\* __main__ has called calculate_outgoing_damage
DamageCalledFromMain ==
    /\ call.fn = "calculate_outgoing_damage"
    /\ stack # <<>>

\* the operator answered 'yes' to calculating a stat first
AnsweredYes == MainLocals.calculate_stat_first_choice = yes

\* (base + equipment base) * (1 + percent bonus) + flat bonus of the four
\* stat inputs
StatTotal ==
    RAdd(RMul(RAdd(MainLocals.char_base_stat, MainLocals.lc_base_stat),
              RAdd(One, MainLocals.stat_percent_bonus)),
         MainLocals.flat_stat_bonus)

scaling_prompt == "Enter Scaling Attribute Value (ATK, HP, or DEF): "

\* the operator has been prompted for the scaling attribute value
ScalingPrompted == \E i \in 1..Len(stdout) : stdout[i] = scaling_prompt

\* C13: whenever the operator answered 'yes' to calculating a stat first and
\* supplied the four stat inputs, the aggregated total, whatever its value,
\* 0 included, is the scaling_attribute_value passed to
\* calculate_outgoing_damage and the operator was not prompted for a scaling
\* attribute value; the prompt is issued only when the stat calculation was
\* declined.
C13_StatTotalIsScalingValue ==
    /\ ScalingPrompted => ~AnsweredYes
    /\ (DamageCalledFromMain /\ AnsweredYes) =>
           /\ call.args.scaling_attribute_value = StatTotal
           /\ ~ScalingPrompted

\* the operator answered 'yes' and supplied stat inputs whose total is not
\* 0: that total is passed to calculate_outgoing_damage, without a prompt
\* for the scaling attribute value
C13_Witness ==
    /\ DamageCalledFromMain
    /\ AnsweredYes
    /\ StatTotal # Zero
    /\ MainLocals.flat_stat_bonus # Zero
    /\ call.args.scaling_attribute_value = StatTotal
    /\ ~ScalingPrompted

=============================================================================
